---------------------------- MODULE Spec2Model ----------------------------
(***************************************************************************)
(* Model of the design-patterns console program (src/cpp):                 *)
(*   - main / DesignPatternsMenu::run, the menu loop reading std::cin      *)
(*   - ConfigurationManager, the mutex-guarded Meyer's singleton           *)
(*   - PaymentProcessorFactory                                             *)
(* Text is modelled as sequences of one-character strings, so that the     *)
(* stream operations (operator>>, ignore, get) act character by character. *)
(***************************************************************************)
EXTENDS Integers, Sequences, FiniteSets, TLC

VARIABLES
    pc,             \* position of the main thread: prompt, ask, returned, unwinding, exited
    cin,            \* std::cin: [buf, fail, eof]
    choice,         \* run()'s local `int choice`
    continueChoice, \* run()'s local `std::string continueChoice`
    out,            \* what the current loop iteration has printed/invoked (std::cout)
    err,            \* what main has printed on std::cerr
    exit,           \* <<>> while running, <<status>> once main has returned
    thrown,         \* what() of the exception in flight or caught, <<>> if none
    guard,          \* initialisation guard of getInstance's static local
    ctorRuns,       \* number of times ConfigurationManager() has run
    appName_, version_, debugMode_, \* the singleton's fields
    mutex_,         \* holder of ConfigurationManager::mutex_, or NoThread
    prog, ip, tpc,  \* per thread: the calls it makes, the current call, the step in it
    local,          \* per thread: the values its calls returned / printed
    lastWrite,      \* history: per field, the argument of the latest setter call, if any
    paymentMethods, \* factory client: the methods it asks for
    fidx,           \* factory client: index of the method in hand
    fpc,            \* factory client: position
    processor,      \* factory client: the product held (a class name), or NoProcessor
    fname,          \* factory client: what getProcessorName returned
    bprog,          \* builder client: the chain of builder calls it makes
    bip,            \* builder client: index of its next call
    bpc,            \* builder client: position: idle, building, built, rendered
    request_,       \* HttpRequestBuilder::request_: the request under construction, or NoRequest
    request1,       \* builder client: what build() returned, or NoRequest
    rendered        \* builder client: what toString() returned, <<>> before

vars == <<pc, cin, choice, continueChoice, out, err, exit, thrown,
          guard, ctorRuns, appName_, version_, debugMode_, mutex_,
          prog, ip, tpc, local, lastWrite,
          paymentMethods, fidx, fpc, processor, fname,
          bprog, bip, bpc, request_, request1, rendered>>

menuVars == <<pc, cin, choice, continueChoice, out, err, exit, thrown>>
objVars == <<guard, ctorRuns, appName_, version_, debugMode_, mutex_>>
threadVars == <<prog, ip, tpc, local, lastWrite>>
factoryVars == <<paymentMethods, fidx, fpc, processor, fname>>
builderVars == <<bprog, bip, bpc, request_, request1, rendered>>

----------------------------------------------------------------------------
(* Bounds of the model *)

\* longest input session, in lines
MaxLines == 3
\* selections tried by the one-selection sessions: 0 .. MaxSelection
MaxSelection == 18
\* number of threads using the singleton
NThreads == 2
\* length of the method list handed to the factory client
MaxMethods == 2
\* builder calls a client chains before build()
MaxCalls == 3

----------------------------------------------------------------------------
(* Characters and text *)

Digits == <<"0", "1", "2", "3", "4", "5", "6", "7", "8", "9">>

IsDigit(c) == \E i \in 1..10 : Digits[i] = c

DigitVal(c) == (CHOOSE i \in 1..10 : Digits[i] = c) - 1

\* std::isspace in the "C" locale, for the characters the model uses
IsSpace(c) == c \in {" ", "\n"}

\* the decimal text of a natural number, as the user types it
RECURSIVE NatText(_)
NatText(n) == IF n < 10 THEN <<Digits[n + 1]>>
              ELSE NatText(n \div 10) \o <<Digits[(n % 10) + 1]>>

----------------------------------------------------------------------------
(* std::istream, as used on std::cin *)

IntMax == 2147483647

Good(s) == ~s.fail /\ ~s.eof

\* ios::clear()
Clear(s) == [s EXCEPT !.fail = FALSE, !.eof = FALSE]

RECURSIVE SkipWs(_)
SkipWs(b) == IF b # <<>> /\ IsSpace(Head(b)) THEN SkipWs(Tail(b)) ELSE b

RECURSIVE CountDigits(_)
CountDigits(b) == IF b # <<>> /\ IsDigit(Head(b)) THEN 1 + CountDigits(Tail(b)) ELSE 0

RECURSIVE CountNonSpace(_)
CountNonSpace(b) == IF b # <<>> /\ ~IsSpace(Head(b)) THEN 1 + CountNonSpace(Tail(b)) ELSE 0

IntMin == (0 - IntMax) - 1

\* the value of the digits ds with sign sgn (1 or -1), accumulated from acc, and
\* whether it leaves the range of int (the value is then clamped, as num_get does)
RECURSIVE DigitsValue(_, _, _)
DigitsValue(ds, sgn, acc) ==
    IF ds = <<>> THEN [val |-> acc, over |-> FALSE]
    ELSE LET d == DigitVal(Head(ds)) IN
         IF sgn = 1 /\ acc > (IntMax - d) \div 10
         THEN [val |-> IntMax, over |-> TRUE]
         ELSE IF sgn = -1 /\ 0 - acc > (IntMax - d + 1) \div 10
         THEN [val |-> IntMin, over |-> TRUE]
         ELSE DigitsValue(Tail(ds), sgn, acc * 10 + sgn * d)

Drop(b, n) == SubSeq(b, n + 1, Len(b))

\* std::cin >> int.  set: whether the variable is assigned; ok: !fail() afterwards
ExtractInt(s) ==
    IF ~Good(s)
    THEN [s |-> [s EXCEPT !.fail = TRUE], ok |-> FALSE, set |-> FALSE, val |-> 0]
    ELSE LET b == SkipWs(s.buf) IN
         IF b = <<>>
         THEN [s |-> [buf |-> <<>>, fail |-> TRUE, eof |-> TRUE],
               ok |-> FALSE, set |-> FALSE, val |-> 0]
         ELSE LET neg == Head(b) = "-"
                  b1 == IF Head(b) \in {"+", "-"} THEN Tail(b) ELSE b
                  n == CountDigits(b1)
                  rest == Drop(b1, n)
                  num == DigitsValue(SubSeq(b1, 1, n), IF neg THEN -1 ELSE 1, 0)
              IN IF n = 0
                 THEN [s |-> [buf |-> rest, fail |-> TRUE, eof |-> rest = <<>>],
                       ok |-> FALSE, set |-> TRUE, val |-> 0]
                 ELSE [s |-> [buf |-> rest, fail |-> num.over, eof |-> rest = <<>>],
                       ok |-> ~num.over, set |-> TRUE, val |-> num.val]

\* std::cin >> std::string.  The string is erased and refilled only if the sentry passes.
ExtractString(s, old) ==
    IF ~Good(s)
    THEN [s |-> [s EXCEPT !.fail = TRUE], str |-> old]
    ELSE LET b == SkipWs(s.buf) IN
         IF b = <<>>
         THEN [s |-> [buf |-> <<>>, fail |-> TRUE, eof |-> TRUE], str |-> old]
         ELSE LET n == CountNonSpace(b)
                  rest == Drop(b, n)
              IN [s |-> [buf |-> rest, fail |-> FALSE, eof |-> rest = <<>>],
                  str |-> SubSeq(b, 1, n)]

RECURSIVE AfterNewline(_)
AfterNewline(b) == IF b = <<>> THEN <<>>
                   ELSE IF Head(b) = "\n" THEN Tail(b) ELSE AfterNewline(Tail(b))

HasNewline(b) == \E i \in 1..Len(b) : b[i] = "\n"

\* std::cin.ignore(numeric_limits<streamsize>::max(), '\n')
Ignore(s) ==
    IF ~Good(s) THEN [s EXCEPT !.fail = TRUE]
    ELSE [buf |-> AfterNewline(s.buf), fail |-> FALSE, eof |-> ~HasNewline(s.buf)]

\* std::cin.get()
Get(s) ==
    IF ~Good(s) THEN [s EXCEPT !.fail = TRUE]
    ELSE IF s.buf = <<>> THEN [buf |-> <<>>, fail |-> TRUE, eof |-> TRUE]
    ELSE [s EXCEPT !.buf = Tail(s.buf)]


----------------------------------------------------------------------------
(* ConfigurationManager (patterns/singleton.hpp) *)

\* mutex_ unlocked: no thread owns it (threads are numbered from 1)
NoThread == 0

\* the values the constructor's initialiser list gives the fields
DefaultConfig == [appName |-> "MyApp", version |-> "1.0.0", debugMode |-> FALSE]

\* the values demoSingleton writes
DemoConfig == [appName |-> "Design Patterns Demo", version |-> "2.0.0", debugMode |-> TRUE]

\* storage of the static local before its constructor has run
RawConfig == [appName |-> "", version |-> "", debugMode |-> FALSE]

\* no setter has been called yet
NothingWritten == [appName |-> <<>>, version |-> <<>>, debugMode |-> <<>>]

Config == [appName |-> appName_, version |-> version_, debugMode |-> debugMode_]

Ev(kind, arg) == [kind |-> kind, arg |-> arg]

\* what displayConfig prints for a configuration
DisplayConfig(c) ==
    Ev("config", <<c.appName, c.version, IF c.debugMode THEN "ON" ELSE "OFF">>)

SetAppName(c, name) == [c EXCEPT !.appName = name]

\* setVersion assigning to the wrong member
SetVersion_WritesAppName(c, version) == [c EXCEPT !.appName = version]

SetVersion(c, version) == [c EXCEPT !.version = version]

SetDebugMode(c, debug) == [c EXCEPT !.debugMode = debug]

\* getInstance with an instance that is not static: built anew on every call
GetInstance_Reconstructs(o) ==
    [guard |-> "done", ctorRuns |-> o.ctorRuns + 1, config |-> DefaultConfig,
     events |-> <<Ev("initialized", <<>>)>>]

\* getInstance called by the only thread there is: the static local is
\* constructed on the first call and never again
GetInstance(o) ==
    IF o.guard = "uninit"
    THEN [guard |-> "done", ctorRuns |-> o.ctorRuns + 1, config |-> DefaultConfig,
          events |-> <<Ev("initialized", <<>>)>>]
    ELSE [guard |-> o.guard, ctorRuns |-> o.ctorRuns, config |-> o.config,
          events |-> <<>>]

\* demoSingleton run to completion by the main thread
DemoSingleton(o) ==
    LET i1 == GetInstance(o)
        c1 == SetDebugMode(SetVersion(SetAppName(i1.config, DemoConfig.appName),
                                      DemoConfig.version), DemoConfig.debugMode)
        i2 == GetInstance([guard |-> i1.guard, ctorRuns |-> i1.ctorRuns, config |-> c1])
    IN [guard |-> i2.guard, ctorRuns |-> i2.ctorRuns, config |-> i2.config,
        threw |-> FALSE, what |-> "",
        events |-> <<Ev("demo", <<"Singleton">>)>> \o i1.events
                   \o <<DisplayConfig(i1.config)>> \o i2.events
                   \o <<DisplayConfig(i2.config)>>]

----------------------------------------------------------------------------
(* PaymentProcessorFactory (patterns/factory.hpp) *)

NoProcessor == "null"

\* a factory that falls back on a default product instead of throwing
CreateProcessor_DefaultProduct(type) ==
    IF type = "paypal" THEN [ok |-> TRUE, class |-> "PayPalProcessor", what |-> ""]
    ELSE IF type = "bitcoin" THEN [ok |-> TRUE, class |-> "BitcoinProcessor", what |-> ""]
    ELSE [ok |-> TRUE, class |-> "CreditCardProcessor", what |-> ""]

\* createProcessor: the product's class, or the std::invalid_argument it throws
CreateProcessor(type) ==
    IF type = "credit_card" THEN [ok |-> TRUE, class |-> "CreditCardProcessor", what |-> ""]
    ELSE IF type = "paypal" THEN [ok |-> TRUE, class |-> "PayPalProcessor", what |-> ""]
    ELSE IF type = "bitcoin" THEN [ok |-> TRUE, class |-> "BitcoinProcessor", what |-> ""]
    ELSE [ok |-> FALSE, class |-> NoProcessor,
          what |-> "Unknown payment processor type: " \o type]

GetAvailableProcessors == <<"credit_card", "paypal", "bitcoin">>

\* the getProcessorName override of each concrete product
GetProcessorName(class) ==
    CASE class = "CreditCardProcessor" -> "Credit Card Processor"
      [] class = "PayPalProcessor" -> "PayPal Processor"
      [] class = "BitcoinProcessor" -> "Bitcoin Processor"

\* the list demoFactory iterates over
DemoPaymentMethods == <<"credit_card", "paypal", "bitcoin">>

\* demoFactory's loop over `methods`; oom: std::make_unique fails to allocate
RECURSIVE FactoryLoop(_, _)
FactoryLoop(methods, oom) ==
    IF methods = <<>> THEN [threw |-> FALSE, what |-> "", events |-> <<>>]
    ELSE LET p == CreateProcessor(Head(methods))
             creating == Ev("creating", <<Head(methods)>>)
         IN IF ~p.ok
            THEN [threw |-> TRUE, what |-> p.what, events |-> <<creating>>]
            ELSE IF oom
            THEN [threw |-> TRUE, what |-> "std::bad_alloc", events |-> <<creating>>]
            ELSE LET rest == FactoryLoop(Tail(methods), oom)
                 IN [threw |-> rest.threw, what |-> rest.what,
                     events |-> <<creating, Ev("created", <<GetProcessorName(p.class)>>),
                                  Ev("payment", <<p.class>>)>> \o rest.events]

DemoFactory(oom) ==
    LET r == FactoryLoop(DemoPaymentMethods, oom)
    IN [threw |-> r.threw, what |-> r.what,
        events |-> <<Ev("demo", <<"Factory">>)>> \o r.events]

----------------------------------------------------------------------------
(* HttpRequest and HttpRequestBuilder (patterns/builder.hpp) *)

\* a unique_ptr<HttpRequest> that holds nothing
NoRequest == "null"

\* HttpRequest(): method_ "GET", timeout_ 30, the other members empty
NewRequest == [method |-> "GET", url |-> "", body |-> "", headers |-> <<>>, timeout |-> 30]

SetMethod(r, method) == [r EXCEPT !.method = method]

SetUrl(r, url) == [r EXCEPT !.url = url]

SetBody(r, body) == [r EXCEPT !.body = body]

\* headers kept by name, a later header replacing the earlier ones
AddHeader_KeepsLast(r, key, value) == [r EXCEPT !.headers = << <<key, value>> >>]

\* headers_.push_back({key, value})
AddHeader(r, key, value) == [r EXCEPT !.headers = Append(@, <<key, value>>)]

SetTimeout(r, timeout) == [r EXCEPT !.timeout = timeout]

\* operator<<(int): the decimal text of an int
IntText(n) == IF n < 0 THEN <<"-">> \o NatText(0 - n) ELSE NatText(n)

\* the line toString writes for each header, in the order of headers_
HeaderLines(headers) ==
    [i \in 1..Len(headers) |-> <<"    ", headers[i][1], ": ", headers[i][2]>>]

\* HttpRequest::toString: the lines of the text, each the pieces streamed into
\* it before its "\n"
RequestToString(r) ==
    << <<"HTTP Request:">>,
       <<"  Method: ", r.method>>,
       <<"  URL: ", r.url>>,
       <<"  Timeout: ">> \o IntText(r.timeout) \o <<"s">>,
       <<"  Headers:">> >>
    \o HeaderLines(r.headers)
    \o (IF r.body # "" THEN << <<"  Body: ", r.body>> >> ELSE <<>>)

\* HttpRequestBuilder(): request_ holds a new HttpRequest
NewBuilder == NewRequest

\* the builder's methods, on the request that request_ points to
BuilderMethod(b, method) == SetMethod(b, method)

BuilderUrl(b, url) == SetUrl(b, url)

BuilderBody(b, body) == SetBody(b, body)

BuilderHeader(b, key, value) == AddHeader(b, key, value)

BuilderTimeout(b, timeout) == SetTimeout(b, timeout)

\* build(): the request moves out of request_, which is left holding nothing
BuilderBuild(b) == [request |-> b, request_ |-> NoRequest]

DemoUrl == "https://api.example.com/users"

DemoBody == "{\"name\":\"John\",\"email\":\"john@example.com\"}"

\* demoBuilder's request1
DemoRequest1 ==
    BuilderBuild(
      BuilderTimeout(
        BuilderBody(
          BuilderHeader(
            BuilderHeader(
              BuilderUrl(BuilderMethod(NewBuilder, "POST"), DemoUrl),
              "Content-Type", "application/json"),
            "Authorization", "Bearer token123"),
          DemoBody),
        60)).request

\* demoBuilder's request2
DemoRequest2 ==
    BuilderBuild(
      BuilderHeader(
        BuilderUrl(BuilderMethod(NewBuilder, "GET"), "https://api.example.com/users/123"),
        "Accept", "application/json")).request

\* demoBuilder; oom: std::make_unique fails to allocate the first request
DemoBuilder(oom) ==
    IF oom
    THEN [threw |-> TRUE, what |-> "std::bad_alloc", events |-> <<Ev("demo", <<"Builder">>)>>]
    ELSE [threw |-> FALSE, what |-> "",
          events |-> <<Ev("demo", <<"Builder">>), Ev("request", RequestToString(DemoRequest1)),
                       Ev("request", RequestToString(DemoRequest2))>>]

----------------------------------------------------------------------------
(* DesignPatternsMenu (main.cpp) *)

\* the patterns in the order displayMenu lists them, options 1..15
MenuOrder == <<"Builder", "Factory", "Singleton", "Observer", "Strategy", "Command",
               "Decorator", "Adapter", "Facade", "Template Method", "Proxy", "Visitor",
               "Memento", "Chain of Responsibility", "State">>

FirstDemoChoice == 1
LastDemoChoice == 15
TipsChoice == 16
ExitChoice == 17

\* the switch with the bodies of cases 4 and 5 exchanged
RunPatternDemoCase_Swapped(c) ==
    CASE c = 1 -> "Builder"
      [] c = 2 -> "Factory"
      [] c = 3 -> "Singleton"
      [] c = 4 -> "Strategy"
      [] c = 5 -> "Observer"
      [] c = 6 -> "Command"
      [] c = 7 -> "Decorator"
      [] c = 8 -> "Adapter"
      [] c = 9 -> "Facade"
      [] c = 10 -> "Template Method"
      [] c = 11 -> "Proxy"
      [] c = 12 -> "Visitor"
      [] c = 13 -> "Memento"
      [] c = 14 -> "Chain of Responsibility"
      [] c = 15 -> "State"
      [] OTHER -> "default"

\* the demo each case of runPatternDemo's switch calls, by the pattern it shows
RunPatternDemoCase(c) ==
    CASE c = 1 -> "Builder"
      [] c = 2 -> "Factory"
      [] c = 3 -> "Singleton"
      [] c = 4 -> "Observer"
      [] c = 5 -> "Strategy"
      [] c = 6 -> "Command"
      [] c = 7 -> "Decorator"
      [] c = 8 -> "Adapter"
      [] c = 9 -> "Facade"
      [] c = 10 -> "Template Method"
      [] c = 11 -> "Proxy"
      [] c = 12 -> "Visitor"
      [] c = 13 -> "Memento"
      [] c = 14 -> "Chain of Responsibility"
      [] c = 15 -> "State"
      [] OTHER -> "default"

\* a demo that only prints: it leaves the singleton alone and does not throw
PrintingDemo(name, o) ==
    [guard |-> o.guard, ctorRuns |-> o.ctorRuns, config |-> o.config,
     threw |-> FALSE, what |-> "", events |-> <<Ev("demo", <<name>>)>>]

\* runPatternDemo(c) on the singleton state o
RunPatternDemo(c, oom, o) ==
    LET name == RunPatternDemoCase(c)
        d == IF name = "Singleton" THEN DemoSingleton(o)
             ELSE IF name = "Factory"
             THEN LET f == DemoFactory(oom)
                  IN [guard |-> o.guard, ctorRuns |-> o.ctorRuns, config |-> o.config,
                      threw |-> f.threw, what |-> f.what, events |-> f.events]
             ELSE IF name = "Builder"
             THEN LET b == DemoBuilder(oom)
                  IN [guard |-> o.guard, ctorRuns |-> o.ctorRuns, config |-> o.config,
                      threw |-> b.threw, what |-> b.what, events |-> b.events]
             ELSE PrintingDemo(name, o)
    IN IF name = "default"
       THEN [guard |-> o.guard, ctorRuns |-> o.ctorRuns, config |-> o.config,
             threw |-> FALSE, what |-> "",
             events |-> <<Ev("running", <<>>), Ev("invalid_selection", <<>>)>>]
       ELSE [d EXCEPT !.events = <<Ev("running", <<>>)>> \o d.events
                          \o (IF d.threw THEN <<>> ELSE <<Ev("completed", <<>>)>>)]

ClearInputBuffer(s) == Ignore(Clear(s))

WaitForEnter(s) == Get(ClearInputBuffer(s))

\* the range test with its lower bound off by one
IsDemoChoice_FromZero(c) == c >= FirstDemoChoice - 1 /\ c <= LastDemoChoice

IsDemoChoice(c) == c >= FirstDemoChoice /\ c <= LastDemoChoice

\* the test run() makes of the answer to the continue prompt
IsAffirmative(str) ==
    \/ str = <<"y">>
    \/ str = <<"Y">>
    \/ str = <<"y", "e", "s">>
    \/ str = <<"Y", "e", "s">>

MainReturnStatus == 0

\* the handler returning what the normal path returns
MainCatchStatus_AsReturn == MainReturnStatus

MainCatchStatus == 1

\* displayHeader, displayMenu and the selection prompt
PromptOut == <<Ev("header", <<>>), Ev("menu", <<>>), Ev("prompt", <<>>)>>

Goodbye == Ev("goodbye", <<>>)

PressEnter == Ev("press_enter", <<>>)

Obj == [guard |-> guard, ctorRuns |-> ctorRuns, config |-> Config]

\* the iteration of run() in which std::cin >> choice fails
InvalidInput ==
    /\ pc = "prompt"
    /\ LET r == ExtractInt(cin) IN
        /\ ~r.ok
        /\ choice' = (IF r.set THEN r.val ELSE choice)
        /\ cin' = WaitForEnter(ClearInputBuffer(r.s))
        /\ out' = PromptOut \o <<Ev("invalid_input", <<>>), PressEnter>>
    /\ UNCHANGED <<pc, continueChoice, err, exit, thrown>>
    /\ UNCHANGED <<objVars, threadVars, factoryVars, builderVars>>

\* choice == 16
Tips ==
    /\ pc = "prompt"
    /\ LET r == ExtractInt(cin) IN
        /\ r.ok
        /\ r.val = TipsChoice
        /\ choice' = r.val
        /\ cin' = WaitForEnter(r.s)
        /\ out' = PromptOut \o <<Ev("tips", <<>>), PressEnter>>
    /\ UNCHANGED <<pc, continueChoice, err, exit, thrown>>
    /\ UNCHANGED <<objVars, threadVars, factoryVars, builderVars>>

\* choice == 17
ExitSelected ==
    /\ pc = "prompt"
    /\ LET r == ExtractInt(cin) IN
        /\ r.ok
        /\ r.val # TipsChoice
        /\ r.val = ExitChoice
        /\ choice' = r.val
        /\ cin' = r.s
        /\ out' = PromptOut \o <<Goodbye>>
    /\ pc' = "returned"
    /\ UNCHANGED <<continueChoice, err, exit, thrown>>
    /\ UNCHANGED <<objVars, threadVars, factoryVars, builderVars>>

\* choice in 1..15: runPatternDemo(choice), up to the continue prompt
RunDemo ==
    /\ pc = "prompt"
    /\ LET r == ExtractInt(cin) IN
        /\ r.ok
        /\ r.val # TipsChoice
        /\ r.val # ExitChoice
        /\ IsDemoChoice(r.val)
        /\ choice' = r.val
        /\ cin' = r.s
        /\ \E oom \in BOOLEAN :
            LET d == RunPatternDemo(r.val, oom, Obj) IN
            /\ out' = PromptOut \o d.events
            /\ guard' = d.guard
            /\ ctorRuns' = d.ctorRuns
            /\ appName_' = d.config.appName
            /\ version_' = d.config.version
            /\ debugMode_' = d.config.debugMode
            /\ thrown' = (IF d.threw THEN <<d.what>> ELSE <<>>)
            /\ pc' = (IF d.threw THEN "unwinding" ELSE "ask")
    /\ UNCHANGED <<continueChoice, err, exit, mutex_>>
    /\ UNCHANGED <<threadVars, factoryVars, builderVars>>

\* the continue prompt: std::cin >> continueChoice and the test of the answer
AskContinue ==
    /\ pc = "ask"
    /\ LET r == ExtractString(cin, continueChoice) IN
        /\ cin' = r.s
        /\ continueChoice' = r.str
        /\ IF IsAffirmative(r.str)
           THEN /\ out' = out \o <<Ev("continue_prompt", <<>>)>>
                /\ pc' = "prompt"
           ELSE /\ out' = out \o <<Ev("continue_prompt", <<>>), Goodbye>>
                /\ pc' = "returned"
    /\ UNCHANGED <<choice, err, exit, thrown>>
    /\ UNCHANGED <<objVars, threadVars, factoryVars, builderVars>>

\* the final else of run()
InvalidChoice ==
    /\ pc = "prompt"
    /\ LET r == ExtractInt(cin) IN
        /\ r.ok
        /\ r.val # TipsChoice
        /\ r.val # ExitChoice
        /\ ~IsDemoChoice(r.val)
        /\ choice' = r.val
        /\ cin' = WaitForEnter(r.s)
        /\ out' = PromptOut \o <<Ev("invalid_choice", <<>>), PressEnter>>
    /\ UNCHANGED <<pc, continueChoice, err, exit, thrown>>
    /\ UNCHANGED <<objVars, threadVars, factoryVars, builderVars>>

\* main: menu.run() returned
MainReturn ==
    /\ pc = "returned"
    /\ exit' = <<MainReturnStatus>>
    /\ pc' = "exited"
    /\ UNCHANGED <<cin, choice, continueChoice, out, err, thrown>>
    /\ UNCHANGED <<objVars, threadVars, factoryVars, builderVars>>

\* main: catch (const std::exception& e)
MainCatch ==
    /\ pc = "unwinding"
    /\ err' = err \o <<Ev("fatal", thrown)>>
    /\ exit' = <<MainCatchStatus>>
    /\ pc' = "exited"
    /\ UNCHANGED <<cin, choice, continueChoice, out, thrown>>
    /\ UNCHANGED <<objVars, threadVars, factoryVars, builderVars>>

MenuNext ==
    \/ InvalidInput
    \/ Tips
    \/ ExitSelected
    \/ RunDemo
    \/ AskContinue
    \/ InvalidChoice
    \/ MainReturn
    \/ MainCatch

----------------------------------------------------------------------------
(* Inputs of the menu program *)

NL == <<"\n">>

\* lines a user may type in a session
SessionLines ==
    { NatText(2), NatText(3), NatText(16), NatText(17), NatText(0),
      <<"x">>, <<"3", "x">>, <<"y">>, <<"Y", "E", "S">>, <<"n">>, <<>> }

RECURSIVE Lines(_)
Lines(ls) == IF ls = <<>> THEN <<>> ELSE Head(ls) \o NL \o Lines(Tail(ls))

SessionInputs ==
    LET sess == UNION { [1..k -> SessionLines] : k \in 0..MaxLines }
    IN { Lines(ls) : ls \in sess }
       \cup { Lines(ls) \o l : ls \in UNION { [1..k -> SessionLines] : k \in 0..(MaxLines - 1) },
                               l \in SessionLines }

\* every letter-case variant of "y" and of "yes", and some other answers
AnswerLines ==
    { <<a>> : a \in {"y", "Y"} }
    \cup { <<a, b, c>> : a \in {"y", "Y"}, b \in {"e", "E"}, c \in {"s", "S"} }
    \cup { <<"n">>, <<"n", "o">>, <<"y", "y">>, <<>> }

SelectionLines ==
    { NatText(n) : n \in 0..MaxSelection }
    \cup { <<"-">> \o NatText(1), <<"+">> \o NatText(3), <<"9", "9", "9", "9", "9", "9", "9", "9", "9", "9">>,
           <<"x">>, <<"3", "x">>, <<"-">> }

\* one selection line and one answer line
DispatchInputs == { Lines(<<s, a>>) : s \in SelectionLines, a \in AnswerLines }

ObjInit ==
    /\ guard = "uninit"
    /\ ctorRuns = 0
    /\ appName_ = RawConfig.appName
    /\ version_ = RawConfig.version
    /\ debugMode_ = RawConfig.debugMode
    /\ mutex_ = NoThread

ThreadsIdle ==
    /\ prog = <<>>
    /\ ip = <<>>
    /\ tpc = <<>>
    /\ local = <<>>
    /\ lastWrite = NothingWritten

FactoryIdle ==
    /\ paymentMethods = <<>>
    /\ fidx = 1
    /\ fpc = "idle"
    /\ processor = NoProcessor
    /\ fname = ""

BuilderIdle ==
    /\ bprog = <<>>
    /\ bip = 1
    /\ bpc = "idle"
    /\ request_ = NoRequest
    /\ request1 = NoRequest
    /\ rendered = <<>>

MenuInit(inputs) ==
    /\ pc = "prompt"
    /\ cin \in { [buf |-> b, fail |-> FALSE, eof |-> FALSE] : b \in inputs }
    /\ choice = 0   \* indeterminate, and never read before std::cin >> choice assigns it
    /\ continueChoice = <<>>
    /\ out = <<>>
    /\ err = <<>>
    /\ exit = <<>>
    /\ thrown = <<>>
    /\ ObjInit
    /\ ThreadsIdle
    /\ FactoryIdle
    /\ BuilderIdle

Init == MenuInit(SessionInputs)

Next == MenuNext

\* the menu program on sessions of up to MaxLines lines
Spec == Init /\ [][Next]_vars

InitDispatch == MenuInit(DispatchInputs)

\* the menu program on one selection followed by one answer
SpecDispatch == InitDispatch /\ [][Next]_vars

----------------------------------------------------------------------------
(* ConfigurationManager used by several threads *)

Threads == 1..NThreads

Call(method, arg) == [m |-> method, arg |-> arg]

\* the calls demoSingleton makes, in order
DemoProgram ==
    << Call("getInstance", <<>>), Call("displayConfig", <<>>),
       Call("setAppName", <<DemoConfig.appName>>), Call("setVersion", <<DemoConfig.version>>),
       Call("setDebugMode", <<DemoConfig.debugMode>>),
       Call("getInstance", <<>>), Call("displayConfig", <<>>) >>

\* a client that reads the three fields through the getters
ReaderProgram ==
    << Call("getInstance", <<>>), Call("getAppName", <<>>), Call("getVersion", <<>>),
       Call("isDebugMode", <<>>) >>

\* a client that gives the application another name and reads it back
RenameProgram ==
    << Call("getInstance", <<>>), Call("setAppName", <<"Renamed">>),
       Call("getAppName", <<>>) >>

Programs == <<DemoProgram, ReaderProgram, RenameProgram>>

ProgramIndex(p) == CHOOSE i \in 1..Len(Programs) : Programs[i] = p


NoRef == "null"
InstanceRef == "instance"

NothingRead == [ref |-> NoRef, appName |-> <<>>, version |-> <<>>, debugMode |-> <<>>]

Running(t) == ip[t] <= Len(prog[t])

Cur(t) == IF Running(t) THEN prog[t][ip[t]].m ELSE "return"

\* the argument of the setter call thread t is in
Arg(t) == prog[t][ip[t]].arg[1]

\* the guard test of a static local left without its lock: whoever finds the
\* object not yet constructed constructs it
StaticInitNeeded_Unsynchronised(g) == g # "done"

\* the thread that finds the guard clear initialises the static local
StaticInitNeeded(g) == g = "uninit"

\* lock_guard that does not wait for the holder
MutexFree_NoWait == TRUE

\* std::lock_guard can take mutex_
MutexFree == mutex_ = NoThread

SetTpc(t, p) == tpc' = [tpc EXCEPT ![t] = p]

\* getInstance, first caller: takes the guard and goes on to construct
GetInstanceEnter(t) ==
    /\ Cur(t) = "getInstance"
    /\ tpc[t] = "call"
    /\ StaticInitNeeded(guard)
    /\ guard' = "constructing"
    /\ SetTpc(t, "ctor")
    /\ UNCHANGED <<ctorRuns, appName_, version_, debugMode_, mutex_, prog, ip, local, lastWrite>>
    /\ UNCHANGED <<menuVars, factoryVars, builderVars>>

\* ConfigurationManager(): the initialiser list, then the guard is released
Constructor(t) ==
    /\ tpc[t] = "ctor"
    /\ appName_' = DefaultConfig.appName
    /\ version_' = DefaultConfig.version
    /\ debugMode_' = DefaultConfig.debugMode
    /\ ctorRuns' = ctorRuns + 1
    /\ guard' = "done"
    /\ SetTpc(t, "call")
    /\ UNCHANGED <<mutex_, prog, ip, local, lastWrite>>
    /\ UNCHANGED <<menuVars, factoryVars, builderVars>>

\* getInstance: return instance.  A caller that finds the guard held waits.
GetInstanceReturn(t) ==
    /\ Cur(t) = "getInstance"
    /\ tpc[t] = "call"
    /\ ~StaticInitNeeded(guard)
    /\ guard = "done"
    /\ local' = [local EXCEPT ![t].ref = InstanceRef]
    /\ ip' = [ip EXCEPT ![t] = @ + 1]
    /\ UNCHANGED <<objVars, prog, tpc, lastWrite>>
    /\ UNCHANGED <<menuVars, factoryVars, builderVars>>

\* std::lock_guard<std::mutex> lock(mutex_) at the top of every member function
Lock(t) ==
    /\ Cur(t) \notin {"getInstance", "return"}
    /\ tpc[t] = "call"
    /\ MutexFree
    /\ mutex_' = t
    /\ SetTpc(t, "locked")
    /\ local' = IF Cur(t) = "displayConfig"
                THEN [local EXCEPT ![t] = [NothingRead EXCEPT !.ref = local[t].ref]]
                ELSE local
    /\ UNCHANGED <<guard, ctorRuns, appName_, version_, debugMode_, prog, ip, lastWrite>>
    /\ UNCHANGED <<menuVars, factoryVars, builderVars>>

StoreConfig(c) ==
    /\ appName_' = c.appName
    /\ version_' = c.version
    /\ debugMode_' = c.debugMode

Body(t, method) == Cur(t) = method /\ tpc[t] = "locked"

SetAppNameCall(t) ==
    /\ Body(t, "setAppName")
    /\ StoreConfig(SetAppName(Config, Arg(t)))
    /\ lastWrite' = [lastWrite EXCEPT !.appName = <<Arg(t)>>]
    /\ SetTpc(t, "unlock")
    /\ UNCHANGED <<guard, ctorRuns, mutex_, prog, ip, local>>
    /\ UNCHANGED <<menuVars, factoryVars, builderVars>>

SetVersionCall(t) ==
    /\ Body(t, "setVersion")
    /\ StoreConfig(SetVersion(Config, Arg(t)))
    /\ lastWrite' = [lastWrite EXCEPT !.version = <<Arg(t)>>]
    /\ SetTpc(t, "unlock")
    /\ UNCHANGED <<guard, ctorRuns, mutex_, prog, ip, local>>
    /\ UNCHANGED <<menuVars, factoryVars, builderVars>>

SetDebugModeCall(t) ==
    /\ Body(t, "setDebugMode")
    /\ StoreConfig(SetDebugMode(Config, Arg(t)))
    /\ lastWrite' = [lastWrite EXCEPT !.debugMode = <<Arg(t)>>]
    /\ SetTpc(t, "unlock")
    /\ UNCHANGED <<guard, ctorRuns, mutex_, prog, ip, local>>
    /\ UNCHANGED <<menuVars, factoryVars, builderVars>>

GetAppNameCall(t) ==
    /\ Body(t, "getAppName")
    /\ local' = [local EXCEPT ![t].appName = <<appName_>>]
    /\ SetTpc(t, "unlock")
    /\ UNCHANGED <<objVars, prog, ip, lastWrite>>
    /\ UNCHANGED <<menuVars, factoryVars, builderVars>>

GetVersionCall(t) ==
    /\ Body(t, "getVersion")
    /\ local' = [local EXCEPT ![t].version = <<version_>>]
    /\ SetTpc(t, "unlock")
    /\ UNCHANGED <<objVars, prog, ip, lastWrite>>
    /\ UNCHANGED <<menuVars, factoryVars, builderVars>>

IsDebugModeCall(t) ==
    /\ Body(t, "isDebugMode")
    /\ local' = [local EXCEPT ![t].debugMode = <<debugMode_>>]
    /\ SetTpc(t, "unlock")
    /\ UNCHANGED <<objVars, prog, ip, lastWrite>>
    /\ UNCHANGED <<menuVars, factoryVars, builderVars>>

\* displayConfig: the three fields are streamed one after the other
DisplayAppName(t) ==
    /\ Body(t, "displayConfig")
    /\ local' = [local EXCEPT ![t].appName = <<appName_>>]
    /\ SetTpc(t, "display_version")
    /\ UNCHANGED <<objVars, prog, ip, lastWrite>>
    /\ UNCHANGED <<menuVars, factoryVars, builderVars>>

DisplayVersion(t) ==
    /\ Cur(t) = "displayConfig"
    /\ tpc[t] = "display_version"
    /\ local' = [local EXCEPT ![t].version = <<version_>>]
    /\ SetTpc(t, "display_debug")
    /\ UNCHANGED <<objVars, prog, ip, lastWrite>>
    /\ UNCHANGED <<menuVars, factoryVars, builderVars>>

DisplayDebugMode(t) ==
    /\ Cur(t) = "displayConfig"
    /\ tpc[t] = "display_debug"
    /\ local' = [local EXCEPT ![t].debugMode = <<debugMode_>>]
    /\ SetTpc(t, "unlock")
    /\ UNCHANGED <<objVars, prog, ip, lastWrite>>
    /\ UNCHANGED <<menuVars, factoryVars, builderVars>>

\* ~lock_guard, and the member function returns
Unlock(t) ==
    /\ tpc[t] = "unlock"
    /\ mutex_' = NoThread
    /\ SetTpc(t, "call")
    /\ ip' = [ip EXCEPT ![t] = @ + 1]
    /\ UNCHANGED <<guard, ctorRuns, appName_, version_, debugMode_, prog, local, lastWrite>>
    /\ UNCHANGED <<menuVars, factoryVars, builderVars>>

ThreadsNext ==
    \E t \in Threads :
        \/ GetInstanceEnter(t)
        \/ Constructor(t)
        \/ GetInstanceReturn(t)
        \/ Lock(t)
        \/ SetAppNameCall(t)
        \/ SetVersionCall(t)
        \/ SetDebugModeCall(t)
        \/ GetAppNameCall(t)
        \/ GetVersionCall(t)
        \/ IsDebugModeCall(t)
        \/ DisplayAppName(t)
        \/ DisplayVersion(t)
        \/ DisplayDebugMode(t)
        \/ Unlock(t)

MenuIdle ==
    /\ pc = "idle"
    /\ cin = [buf |-> <<>>, fail |-> FALSE, eof |-> FALSE]
    /\ choice = 0
    /\ continueChoice = <<>>
    /\ out = <<>>
    /\ err = <<>>
    /\ exit = <<>>
    /\ thrown = <<>>

InitSingleton ==
    /\ MenuIdle
    /\ ObjInit
    /\ FactoryIdle
    /\ BuilderIdle
    /\ prog \in { p \in [Threads -> {Programs[i] : i \in 1..Len(Programs)}] :
                     \A t \in Threads : t > 1 => ProgramIndex(p[t - 1]) <= ProgramIndex(p[t]) }
    /\ ip = [t \in Threads |-> 1]
    /\ tpc = [t \in Threads |-> "call"]
    /\ local = [t \in Threads |-> NothingRead]
    /\ lastWrite = NothingWritten

\* NThreads threads, each running demoSingleton's calls, reading the fields or
\* renaming the application; threads being interchangeable, their programs are
\* taken in the order of Programs
SpecSingleton == InitSingleton /\ [][ThreadsNext]_vars

----------------------------------------------------------------------------
(* A client of PaymentProcessorFactory: demoFactory's loop over a method list *)

\* the names a client may ask for: the three products, case variants, others
FactoryTypes ==
    { "credit_card", "paypal", "bitcoin", "", "Credit_Card", "CREDIT_CARD",
      "PayPal", "PAYPAL", "Bitcoin", "BITCOIN", "credit_card ", "cash" }

\* auto processor = PaymentProcessorFactory::createProcessor(method)
FactoryCreate ==
    /\ fpc = "loop"
    /\ fidx <= Len(paymentMethods)
    /\ LET p == CreateProcessor(paymentMethods[fidx]) IN
        /\ processor' = p.class
        /\ thrown' = (IF p.ok THEN thrown ELSE <<p.what>>)
        /\ fpc' = (IF p.ok THEN "created" ELSE "thrown")
    /\ UNCHANGED <<paymentMethods, fidx, fname>>
    /\ UNCHANGED <<pc, cin, choice, continueChoice, out, err, exit>>
    /\ UNCHANGED <<objVars, threadVars, builderVars>>

\* processor->getProcessorName()
FactoryName ==
    /\ fpc = "created"
    /\ fname' = GetProcessorName(processor)
    /\ fpc' = "named"
    /\ UNCHANGED <<paymentMethods, fidx, processor>>
    /\ UNCHANGED <<menuVars, objVars, threadVars, builderVars>>

\* processor->processPayment(amount); the unique_ptr goes out of scope
FactoryProcess ==
    /\ fpc = "named"
    /\ processor' = NoProcessor
    /\ fidx' = fidx + 1
    /\ fpc' = "loop"
    /\ UNCHANGED <<paymentMethods, fname>>
    /\ UNCHANGED <<menuVars, objVars, threadVars, builderVars>>

\* the loop has gone through the list
FactoryDone ==
    /\ fpc = "loop"
    /\ fidx > Len(paymentMethods)
    /\ fpc' = "done"
    /\ UNCHANGED <<paymentMethods, fidx, processor, fname>>
    /\ UNCHANGED <<menuVars, objVars, threadVars, builderVars>>

FactoryNext ==
    \/ FactoryCreate
    \/ FactoryName
    \/ FactoryProcess
    \/ FactoryDone

InitFactory ==
    /\ MenuIdle
    /\ ObjInit
    /\ ThreadsIdle
    /\ BuilderIdle
    /\ paymentMethods \in UNION { [1..k -> FactoryTypes] : k \in 0..MaxMethods }
                          \cup { GetAvailableProcessors }
    /\ fidx = 1
    /\ fpc = "loop"
    /\ processor = NoProcessor
    /\ fname = ""

\* the factory asked for every list of up to MaxMethods names
SpecFactory == InitFactory /\ [][FactoryNext]_vars

\* C8: createProcessor gives "credit_card", "paypal" and "bitcoin" the processors
\* named "Credit Card Processor", "PayPal Processor" and "Bitcoin Processor";
\* any other string, the empty one and case variants included, makes it throw
\* invalid_argument and return nothing; the names getAvailableProcessors lists
\* are all accepted.
C8_FactoryProducts ==
    /\ fpc \in {"created", "named", "thrown"} =>
          LET type == paymentMethods[fidx] IN
          /\ fpc = "thrown" <=> type \notin {"credit_card", "paypal", "bitcoin"}
          /\ fpc = "thrown" =>
                /\ processor = NoProcessor
                /\ thrown = <<"Unknown payment processor type: " \o type>>
          /\ fpc # "thrown" => processor # NoProcessor /\ thrown = <<>>
          /\ fpc = "named" =>
                /\ type = "credit_card" => fname = "Credit Card Processor"
                /\ type = "paypal" => fname = "PayPal Processor"
                /\ type = "bitcoin" => fname = "Bitcoin Processor"
    /\ paymentMethods = GetAvailableProcessors => fpc # "thrown"

\* a case variant of a listed name is refused
C8_Witness ==
    /\ fpc = "thrown"
    /\ paymentMethods[fidx] = "PayPal"
    /\ thrown = <<"Unknown payment processor type: PayPal">>

----------------------------------------------------------------------------
(* Properties of the singleton under concurrent use *)

\* the threads that call a setter
Writers == { t \in Threads : \E i \in 1..Len(prog[t]) :
                prog[t][i].m \in {"setAppName", "setVersion", "setDebugMode"} }

\* thread t is inside a member function, past the lock_guard
InsideLocked(t) == tpc[t] \in {"locked", "display_version", "display_debug", "unlock"}

\* thread t holds the lock and has just read the field in the call it is in
JustReadAppName(t) ==
    \/ Cur(t) = "getAppName" /\ tpc[t] = "unlock"
    \/ Cur(t) = "displayConfig" /\ tpc[t] \in {"display_version", "display_debug", "unlock"}

JustReadVersion(t) ==
    \/ Cur(t) = "getVersion" /\ tpc[t] = "unlock"
    \/ Cur(t) = "displayConfig" /\ tpc[t] \in {"display_debug", "unlock"}

JustReadDebugMode(t) ==
    \/ Cur(t) = "isDebugMode" /\ tpc[t] = "unlock"
    \/ Cur(t) = "displayConfig" /\ tpc[t] = "unlock"

\* the three values a thread has read, once it has read all three
HasTriple(t) ==
    local[t].appName # <<>> /\ local[t].version # <<>> /\ local[t].debugMode # <<>>

Triple(t) == <<local[t].appName[1], local[t].version[1], local[t].debugMode[1]>>

TripleOf(c) == <<c.appName, c.version, c.debugMode>>

C1_OneInstance ==
    /\ ctorRuns <= 1
    /\ guard = "done" => ctorRuns = 1
    /\ \A t \in Threads :
          local[t].ref # NoRef =>
              /\ local[t].ref = InstanceRef
              /\ guard = "done"
              /\ ctorRuns = 1

\* C1: however many threads call getInstance, and however their first calls
\* interleave, the constructor runs exactly once, the initialised state never
\* reverts, and every call returns the one instance, constructed.
C1_SingleConstruction ==
    /\ []C1_OneInstance
    /\ [][guard = "done" => (guard' = "done" /\ ctorRuns' = ctorRuns)]_vars

C1_Witness ==
    /\ \A t \in Threads : local[t].ref = InstanceRef
    /\ \E t \in Threads : prog[t] = DemoProgram /\ ip[t] > 6
    /\ ctorRuns = 1

\* C2 as stated: a read of the triple made while another thread updates it
\* through the three setters yields the whole old triple or the whole new one.
C2_NoTornTriple ==
    (\E w \in Threads : Writers = {w} /\ prog[w] = DemoProgram) =>
        \A t \in Threads :
            HasTriple(t) => Triple(t) \in {TripleOf(DefaultConfig), TripleOf(DemoConfig)}

\* C2 amended: every member function runs with mutex_ held by its caller alone,
\* and the values one displayConfig call has printed so far are the fields as
\* they stand: no setter runs between its reads.  (An update made by three setter
\* calls is not atomic: a reader between two of them sees old and new fields.)
C2_DisplaySnapshot ==
    \A t \in Threads :
        /\ InsideLocked(t) => mutex_ = t
        /\ Cur(t) = "displayConfig" =>
              /\ JustReadAppName(t) => local[t].appName = <<appName_>>
              /\ JustReadVersion(t) => local[t].version = <<version_>>
              /\ JustReadDebugMode(t) => local[t].debugMode = <<debugMode_>>

\* a displayConfig that prints a mixed triple while another thread is between
\* setAppName and setVersion
C2_Witness ==
    \E t, u \in Threads :
        /\ t # u
        /\ Cur(t) = "displayConfig" /\ tpc[t] = "unlock"
        /\ Cur(u) = "setVersion" /\ tpc[u] = "call"
        /\ Triple(t) = <<DemoConfig.appName, DefaultConfig.version, DefaultConfig.debugMode>>

\* C3: a read of a field returns the value last written to it through any
\* reference, until it is written again, and the default "MyApp", "1.0.0", false
\* if it was never written.
C3_ReadSeesLastWrite ==
    \A t \in Threads :
        /\ JustReadAppName(t) =>
              local[t].appName = (IF lastWrite.appName = <<>> THEN <<"MyApp">>
                                  ELSE lastWrite.appName)
        /\ JustReadVersion(t) =>
              local[t].version = (IF lastWrite.version = <<>> THEN <<"1.0.0">>
                                  ELSE lastWrite.version)
        /\ JustReadDebugMode(t) =>
              local[t].debugMode = (IF lastWrite.debugMode = <<>> THEN <<FALSE>>
                                    ELSE lastWrite.debugMode)

\* a thread that renamed the application reads back, through its own reference,
\* the name another thread has written since
C3_Witness ==
    \E t \in Threads :
        /\ prog[t] = RenameProgram
        /\ Cur(t) = "getAppName"
        /\ JustReadAppName(t)
        /\ local[t].appName = <<DemoConfig.appName>>

----------------------------------------------------------------------------
(* Properties of the menu loop *)

Printed(kind) == \E i \in 1..Len(out) : out[i].kind = kind

IsDemoEvent(e) == e.kind = "demo"

IsTipsEvent(e) == e.kind = "tips"

IsPromptEvent(e) == e.kind = "prompt"

\* the demos invoked in the current iteration, in order
DemosInvoked(o) == SelectSeq(o, IsDemoEvent)

TipsShown(o) == SelectSeq(o, IsTipsEvent)

\* the next whitespace-delimited token waiting in a buffer
PendingToken(b) == SubSeq(SkipWs(b), 1, CountNonSpace(SkipWs(b)))

\* an optionally signed, non-empty run of decimal digits
IsNumeral(tok) ==
    LET body == IF tok # <<>> /\ Head(tok) \in {"+", "-"} THEN Tail(tok) ELSE tok
    IN body # <<>> /\ CountDigits(body) = Len(body)

Lower(c) == CASE c = "Y" -> "y" [] c = "E" -> "e" [] c = "S" -> "s" [] OTHER -> c

LowerText(t) == [i \in 1..Len(t) |-> Lower(t[i])]

\* C4: a successfully read selection k in 1..17 has exactly one outcome: for k in
\* 1..15 exactly the k-th demo of the menu is invoked and nothing else, 16 shows
\* the tips and no demo, 17 ends the loop with neither a demo nor the tips.
C4_SelectionDispatch ==
    (out # <<>> /\ ~Printed("invalid_input") /\ choice \in 1..17) =>
        /\ choice \in 1..15 =>
              /\ DemosInvoked(out) = <<Ev("demo", <<MenuOrder[choice]>>)>>
              /\ TipsShown(out) = <<>>
        /\ choice = 16 =>
              /\ DemosInvoked(out) = <<>>
              /\ Len(TipsShown(out)) = 1
              /\ pc = "prompt"
        /\ choice = 17 =>
              /\ DemosInvoked(out) = <<>>
              /\ TipsShown(out) = <<>>
              /\ pc \in {"returned", "exited"}

C4_Witness ==
    /\ choice = 15
    /\ pc = "ask"
    /\ DemosInvoked(out) = <<Ev("demo", <<"State">>)>>
    /\ Printed("completed")

\* C5: for any non-numeric input at the selection prompt the iteration invokes no
\* demo and no tips screen, does not end the loop, and returns to the prompt.
C5_NonNumericReprompts ==
    [][ (pc = "prompt" /\ PendingToken(cin.buf) # <<>>
            /\ ~IsNumeral(PendingToken(cin.buf)))
        => (/\ pc' = "prompt"
            /\ DemosInvoked(out') = <<>>
            /\ TipsShown(out') = <<>>) ]_vars

\* C6: a successfully read selection outside 1..17 prints "Invalid choice", invokes
\* no demo, leaves the singleton and the running status as they were, and the
\* loop goes on to the next selection prompt.
C6_InvalidChoiceNoChange ==
    [][ (pc = "prompt" /\ ExtractInt(cin).ok /\ ExtractInt(cin).val \notin 1..17)
        => (/\ Printed("invalid_choice")'
            /\ DemosInvoked(out') = <<>>
            /\ TipsShown(out') = <<>>
            /\ pc' = "prompt"
            /\ UNCHANGED <<guard, ctorRuns, appName_, version_, debugMode_, mutex_>>
            /\ UNCHANGED <<exit, err, thrown, continueChoice>>) ]_vars

C6_Witness ==
    /\ Printed("invalid_choice")
    /\ choice = 18
    /\ pc = "prompt"

\* C7: after a demo the loop continues exactly when the answer to the continue
\* prompt is "y" or "yes" in any letter case; any other answer ends it.
C7_ContinueIffAffirmative ==
    [][ pc = "ask"
        => ((pc' = "prompt")
              <=> (LowerText(PendingToken(cin.buf)) \in {<<"y">>, <<"y", "e", "s">>})) ]_vars

\* C9: the exit status is 0 exactly when the loop ended by selection 17 or by a
\* non-affirmative answer; a failure leaving a demo reaches main, is reported on
\* the error stream and gives status 1, no further prompt being shown.
C9_ExitStatus ==
    /\ pc # "exited" => exit = <<>> /\ err = <<>>
    /\ pc = "unwinding" => thrown # <<>>
    /\ pc = "exited" =>
          /\ exit \in {<<0>>, <<1>>}
          /\ (exit = <<0>>) <=> (thrown = <<>> /\ out[Len(out)] = Goodbye)
          /\ thrown # <<>> =>
                /\ exit = <<1>>
                /\ err = <<Ev("fatal", thrown)>>
                /\ Len(SelectSeq(out, IsPromptEvent)) = 1
                /\ ~Printed("completed")
                /\ ~Printed("continue_prompt")
                /\ ~Printed("goodbye")
          /\ thrown = <<>> => err = <<>>

C9_Witness ==
    /\ pc = "exited"
    /\ exit = <<1>>
    /\ err = <<Ev("fatal", <<"std::bad_alloc">>)>>

\* the invalid-input iteration leaves std::cin exactly as it found it, so every
\* later iteration takes the same branch
InvalidInputSpins ==
    /\ pc = "prompt"
    /\ ~ExtractInt(cin).ok
    /\ WaitForEnter(ClearInputBuffer(ExtractInt(cin).s)) = cin

\* C10: malformed input is discarded before the next prompt: the loop never
\* repeats the invalid-input branch forever without consuming input, end of input
\* included, and the lines after the malformed one are still there to be read.
C10_MalformedDiscarded ==
    /\ [](~InvalidInputSpins)
    /\ [][ (pc = "prompt" /\ ~ExtractInt(cin).ok /\ PendingToken(cin.buf) # <<>>)
           => cin'.buf = AfterNewline(SkipWs(cin.buf)) ]_vars

----------------------------------------------------------------------------
(* What one iteration of run() carries over to the next *)

\* the singleton's storage in a process that has not yet called getInstance
FreshObj == [guard |-> "uninit", ctorRuns |-> 0, config |-> RawConfig]

\* a step of run() that dispatches a demo
DemoStep == pc = "prompt" /\ pc' \in {"ask", "unwinding"}

\* what an iteration prints for selection c in a process whose earlier
\* iterations left nothing behind
FreshIterationOutputs(c) ==
    { PromptOut \o RunPatternDemo(c, oom, FreshObj).events : oom \in BOOLEAN }

\* the first run of the Singleton demo in a process
FirstSingletonRun ==
    << Ev("running", <<>>), Ev("demo", <<"Singleton">>), Ev("initialized", <<>>),
       Ev("config", <<"MyApp", "1.0.0", "OFF">>),
       Ev("config", <<"Design Patterns Demo", "2.0.0", "ON">>),
       Ev("completed", <<>>) >>

\* every later run of the Singleton demo
LaterSingletonRun ==
    << Ev("running", <<>>), Ev("demo", <<"Singleton">>),
       Ev("config", <<"Design Patterns Demo", "2.0.0", "ON">>),
       Ev("config", <<"Design Patterns Demo", "2.0.0", "ON">>),
       Ev("completed", <<>>) >>

SingletonChoice == 3

\* C11 as stated: nothing but the decision to continue passes from one
\* iteration of the menu loop to the next, so every selection, selection 3
\* included, prints what it prints in the first iteration of a process
C11_NoStateAcrossIterations ==
    [][ DemoStep => out' \in FreshIterationOutputs(choice') ]_vars

\* C11 amended: the ConfigurationManager singleton outlives the iteration.
\* A selection other than 3 prints what it prints in a fresh process and leaves
\* the singleton alone; selection 3 prints the initialisation message and the
\* default values only on its first run, the demo's values in both displays on
\* every later run, and always leaves the demo's values behind.  The answer to
\* the continue prompt is the token read, or the previous answer when the
\* input has no token left.
C11_OnlySingletonPersists ==
    /\ [][ (DemoStep /\ choice' # SingletonChoice)
             => /\ out' \in FreshIterationOutputs(choice')
                /\ UNCHANGED objVars ]_vars
    /\ [][ (DemoStep /\ choice' = SingletonChoice)
             => /\ out' = PromptOut \o (IF guard = "uninit" THEN FirstSingletonRun
                                                             ELSE LaterSingletonRun)
                /\ guard' = "done"
                /\ ctorRuns' = 1
                /\ TripleOf(Config)' = TripleOf(DemoConfig) ]_vars
    /\ [][ pc = "ask"
             => LET tok == PendingToken(cin.buf)
                    answer == IF tok = <<>> THEN continueChoice ELSE tok
                IN /\ continueChoice' = answer
                   /\ (pc' = "prompt") = IsAffirmative(answer) ]_vars

\* the Singleton demo has just run for the second time in the process
C11_Witness ==
    /\ pc = "ask"
    /\ choice = SingletonChoice
    /\ out = PromptOut \o LaterSingletonRun
    /\ continueChoice = <<"y">>

----------------------------------------------------------------------------
(* A client of HttpRequestBuilder: a chain of calls, build(), toString() *)

\* a builder call: its name, its string arguments, its int argument (0 if none)
BuilderCall(method, strs, int) == [m |-> method, arg |-> strs, int |-> int]

\* the calls a client may chain
BuilderCalls ==
    { BuilderCall("method", <<m>>, 0) : m \in {"POST", "GET"} }
    \cup { BuilderCall("url", <<u>>, 0) : u \in {DemoUrl, "https://api.example.com/users/123"} }
    \cup { BuilderCall("body", <<b>>, 0) : b \in {DemoBody, ""} }
    \cup { BuilderCall("header", h, 0) : h \in { <<"Content-Type", "application/json">>,
                                       <<"Accept", "application/json">> } }
    \cup { BuilderCall("timeout", <<>>, t) : t \in {60, 0, -1} }

\* the chain that builds demoBuilder's request1
Request1Calls ==
    << BuilderCall("method", <<"POST">>, 0), BuilderCall("url", <<DemoUrl>>, 0),
       BuilderCall("header", <<"Content-Type", "application/json">>, 0),
       BuilderCall("header", <<"Authorization", "Bearer token123">>, 0),
       BuilderCall("body", <<DemoBody>>, 0), BuilderCall("timeout", <<>>, 60) >>

\* the chain that builds demoBuilder's request2
Request2Calls ==
    << BuilderCall("method", <<"GET">>, 0), BuilderCall("url", <<"https://api.example.com/users/123">>, 0),
       BuilderCall("header", <<"Accept", "application/json">>, 0) >>

\* a POST request with one header, a body and a timeout
PostCalls ==
    << BuilderCall("method", <<"POST">>, 0), BuilderCall("url", <<DemoUrl>>, 0),
       BuilderCall("header", <<"Content-Type", "application/json">>, 0),
       BuilderCall("body", <<DemoBody>>, 0), BuilderCall("timeout", <<>>, 60) >>

BuilderPrograms ==
    UNION { [1..k -> BuilderCalls] : k \in 0..MaxCalls }
    \cup { Request1Calls, Request2Calls, PostCalls }

\* the client's next call is `method`
NextCall(method) ==
    /\ bpc = "building"
    /\ bip <= Len(bprog)
    /\ bprog[bip].m = method

\* HttpRequestBuilder()
BuilderConstruct ==
    /\ bpc = "start"
    /\ request_' = NewBuilder
    /\ bpc' = "building"
    /\ UNCHANGED <<bprog, bip, request1, rendered>>
    /\ UNCHANGED <<menuVars, objVars, threadVars, factoryVars>>

\* the builder call `method` has changed the request to r
Chained(r) ==
    /\ request_' = r
    /\ bip' = bip + 1
    /\ UNCHANGED <<bprog, bpc, request1, rendered>>
    /\ UNCHANGED <<menuVars, objVars, threadVars, factoryVars>>

MethodCall ==
    /\ NextCall("method")
    /\ Chained(BuilderMethod(request_, bprog[bip].arg[1]))

UrlCall ==
    /\ NextCall("url")
    /\ Chained(BuilderUrl(request_, bprog[bip].arg[1]))

BodyCall ==
    /\ NextCall("body")
    /\ Chained(BuilderBody(request_, bprog[bip].arg[1]))

HeaderCall ==
    /\ NextCall("header")
    /\ Chained(BuilderHeader(request_, bprog[bip].arg[1], bprog[bip].arg[2]))

TimeoutCall ==
    /\ NextCall("timeout")
    /\ Chained(BuilderTimeout(request_, bprog[bip].int))

\* .build() at the end of the chain
BuildCall ==
    /\ bpc = "building"
    /\ bip > Len(bprog)
    /\ LET b == BuilderBuild(request_) IN
        /\ request1' = b.request
        /\ request_' = b.request_
    /\ bpc' = "built"
    /\ UNCHANGED <<bprog, bip, rendered>>
    /\ UNCHANGED <<menuVars, objVars, threadVars, factoryVars>>

\* request1->toString()
ToStringCall ==
    /\ bpc = "built"
    /\ rendered' = RequestToString(request1)
    /\ bpc' = "rendered"
    /\ UNCHANGED <<bprog, bip, request_, request1>>
    /\ UNCHANGED <<menuVars, objVars, threadVars, factoryVars>>

BuilderNext ==
    \/ BuilderConstruct
    \/ MethodCall
    \/ UrlCall
    \/ BodyCall
    \/ HeaderCall
    \/ TimeoutCall
    \/ BuildCall
    \/ ToStringCall

InitBuilder ==
    /\ MenuIdle
    /\ ObjInit
    /\ ThreadsIdle
    /\ FactoryIdle
    /\ bprog \in BuilderPrograms
    /\ bip = 1
    /\ bpc = "start"
    /\ request_ = NoRequest
    /\ request1 = NoRequest
    /\ rendered = <<>>

\* every chain of up to MaxCalls builder calls, and the chains of demoBuilder,
\* built and rendered
SpecBuilder == InitBuilder /\ [][BuilderNext]_vars

----------------------------------------------------------------------------
(* Properties of the builder *)

\* the last call of `method` in the chain, or `default`
RECURSIVE LastCall(_, _, _)
LastCall(calls, method, default) ==
    IF calls = <<>> THEN default
    ELSE IF calls[Len(calls)].m = method THEN calls[Len(calls)]
    ELSE LastCall(SubSeq(calls, 1, Len(calls) - 1), method, default)

IsHeaderCall(c) == c.m = "header"

\* the header calls of the chain, in order
HeaderCalls(calls) == SelectSeq(calls, IsHeaderCall)

\* the int that a decimal text denotes
TextValue(t) ==
    IF t # <<>> /\ Head(t) = "-" THEN DigitsValue(Tail(t), -1, 0).val
    ELSE DigitsValue(t, 1, 0).val

IsDecimal(t) ==
    LET ds == IF t # <<>> /\ Head(t) = "-" THEN Tail(t) ELSE t
    IN ds # <<>> /\ CountDigits(ds) = Len(ds)

\* C12: after any chain of builder calls and build(), toString gives, in this
\* order, the heading, the method of the last method() call ("GET" if none),
\* the url of the last url() call, the timeout of the last timeout() call (30
\* if none) in decimal followed by "s", one line per header() call in the order
\* of the calls, and a body line with the body of the last body() call exactly
\* when that body is not empty.
C12_RendersLastValues ==
    bpc = "rendered" =>
        LET method == LastCall(bprog, "method", BuilderCall("method", <<"GET">>, 0)).arg[1]
            url == LastCall(bprog, "url", BuilderCall("url", <<"">>, 0)).arg[1]
            timeout == LastCall(bprog, "timeout", BuilderCall("timeout", <<>>, 30)).int
            body == LastCall(bprog, "body", BuilderCall("body", <<"">>, 0)).arg[1]
            hs == HeaderCalls(bprog)
            n == Len(hs)
            tline == rendered[4]
            ttext == SubSeq(tline, 2, Len(tline) - 1)
        IN /\ Len(rendered) = 5 + n + (IF body # "" THEN 1 ELSE 0)
           /\ rendered[1] = <<"HTTP Request:">>
           /\ rendered[2] = <<"  Method: ", method>>
           /\ rendered[3] = <<"  URL: ", url>>
           /\ Len(tline) >= 3
           /\ tline[1] = "  Timeout: "
           /\ tline[Len(tline)] = "s"
           /\ IsDecimal(ttext)
           /\ TextValue(ttext) = timeout
           /\ rendered[5] = <<"  Headers:">>
           /\ \A i \in 1..n :
                 rendered[5 + i] = <<"    ", hs[i].arg[1], ": ", hs[i].arg[2]>>
           /\ body # "" => rendered[6 + n] = <<"  Body: ", body>>

\* the POST request with one header, a body and timeout 60 has been rendered
C12_Witness ==
    /\ bpc = "rendered"
    /\ bprog = PostCalls
    /\ rendered = << <<"HTTP Request:">>,
                     <<"  Method: ", "POST">>,
                     <<"  URL: ", "https://api.example.com/users">>,
                     <<"  Timeout: ", "6", "0", "s">>,
                     <<"  Headers:">>,
                     <<"    ", "Content-Type", ": ", "application/json">>,
                     <<"  Body: ", DemoBody>> >>

============================================================================
